---------------------------- MODULE Spec2Model ----------------------------
(***************************************************************************)
(* Loading of the package starlette_jhalog (src/starlette_jhalog/          *)
(* __init__.py).  The package body is five lines: a docstring, two         *)
(* "from ... import ..." statements and the binding of __all__.  The model *)
(* runs that body instruction by instruction under Python's import         *)
(* protocol: the module is entered in sys.modules before its body runs, a  *)
(* submodule is executed the first time it is imported and then bound as   *)
(* an attribute of the package, an exception raised by the body removes    *)
(* the package from sys.modules and propagates to the importer, and a      *)
(* later import of a loaded package is answered from sys.modules.          *)
(* The two submodules _middleware and _exceptions are not part of the      *)
(* source tree; what they are (absent, raising, or defining some names) is *)
(* the environment, chosen in Init.                                        *)
(***************************************************************************)
EXTENDS Naturals, Sequences, FiniteSets

\* Bounds of the model.
MaxObj == 2          \* distinct objects a submodule may bind its names to
NumConsumers == 2    \* pieces of code that import the package
MaxImports == 3      \* import statements executed by the consumers in total

Consumers == 1..NumConsumers

\* The package and its two internal submodules (lines 2-3).
Pkg == "starlette_jhalog"
Subs == {"_middleware", "_exceptions"}
SubName(s) == IF s = "_middleware" THEN "starlette_jhalog._middleware"
                                   ELSE "starlette_jhalog._exceptions"

\* The names the two import statements ask for (lines 2-3).
Names == {"JhalogMiddleware", "HTTPException", "get_logger"}

\* A faulty export list: get_logger listed twice.
__all__Dup == <<"JhalogMiddleware", "HTTPException", "get_logger", "get_logger">>
\* Line 5: the value bound to __all__.
__all__ == <<"JhalogMiddleware", "HTTPException", "get_logger">>

\* Names beginning with an underscore that the load can bind in the package
\* namespace: the docstring, the export list, the module's own name and the
\* two submodule attributes set by the import system.
Underscored == {"__name__", "__doc__", "__all__", "_middleware", "_exceptions"}

\* One instruction of the module body.
Instr(op, sub, name) == [op |-> op, sub |-> sub, name |-> name]

\* A faulty body: lines 2 and 3 in the other order.
BodySwapped ==
  << Instr("STORE_DOC", "", "__doc__"),
     Instr("IMPORT_NAME", "_exceptions", ""),
     Instr("IMPORT_FROM", "_exceptions", "HTTPException"),
     Instr("IMPORT_NAME", "_middleware", ""),
     Instr("IMPORT_FROM", "_middleware", "JhalogMiddleware"),
     Instr("IMPORT_FROM", "_middleware", "get_logger"),
     Instr("STORE_ALL", "", "__all__") >>

\* A faulty body: line 2 imports JhalogMiddleware only.
BodyNoLogger ==
  << Instr("STORE_DOC", "", "__doc__"),
     Instr("IMPORT_NAME", "_middleware", ""),
     Instr("IMPORT_FROM", "_middleware", "JhalogMiddleware"),
     Instr("IMPORT_NAME", "_exceptions", ""),
     Instr("IMPORT_FROM", "_exceptions", "HTTPException"),
     Instr("STORE_ALL", "", "__all__") >>

\* A faulty body: HTTPException taken from _middleware.
BodyWrongOrigin ==
  << Instr("STORE_DOC", "", "__doc__"),
     Instr("IMPORT_NAME", "_middleware", ""),
     Instr("IMPORT_FROM", "_middleware", "JhalogMiddleware"),
     Instr("IMPORT_FROM", "_middleware", "get_logger"),
     Instr("IMPORT_FROM", "_middleware", "HTTPException"),
     Instr("IMPORT_NAME", "_exceptions", ""),
     Instr("STORE_ALL", "", "__all__") >>

\* The module body, lines 1-5, as the instruction sequence it compiles to.
Body ==
  << Instr("STORE_DOC", "", "__doc__"),
     Instr("IMPORT_NAME", "_middleware", ""),
     Instr("IMPORT_FROM", "_middleware", "JhalogMiddleware"),
     Instr("IMPORT_FROM", "_middleware", "get_logger"),
     Instr("IMPORT_NAME", "_exceptions", ""),
     Instr("IMPORT_FROM", "_exceptions", "HTTPException"),
     Instr("STORE_ALL", "", "__all__") >>

\* Objects.  A definition of a submodule is an object with a positive id; the
\* other values a namespace holds are a string, a tuple or a module.
Obj(k) == [kind |-> "obj", id |-> k]
ModuleObj(s) == [kind |-> "module", id |-> IF s = "_middleware" THEN 1 ELSE 2]
StrObj == [kind |-> "str", id |-> 0]
TupleObj == [kind |-> "tuple", id |-> 0]

\* What a submodule file is: absent, raising when executed, or defining each
\* of the names as some object (0: the name is not defined).
NoDefs == [n \in Names |-> 0]
SourceFiles ==
  {[status |-> "ok", defs |-> d] : d \in [Names -> 0..MaxObj]}
    \cup {[status |-> "absent", defs |-> NoDefs],
          [status |-> "raises", defs |-> NoDefs]}

\* ns with name n bound to value v.
Bind(f, n, v) == [m \in (DOMAIN f) \cup {n} |-> IF m = n THEN v ELSE f[m]]

\* The namespace of a module object the import system has just created.
NewModule == [m \in {"__name__"} |-> StrObj]

VARIABLES
  source,      \* the two submodule files
  sysModules,  \* sys.modules: names of the modules entered there
  subNs,       \* the namespace of each submodule (all 0 until it has run)
  ns,          \* the namespace of the package's module object
  exportList,  \* the value of the package's __all__ (<<>> until line 5 ran)
  status,      \* "idle" | "running" | "done" | "failed": the package's load
  pc,          \* index in Body of the next (or the failing) instruction
  loader,      \* the consumer whose import runs (or last ran) the body
  held,        \* per consumer: "none", "module", or the exception it got
  error,       \* the exception of the last failed load, "none" otherwise
  execCount,   \* how many times the body was started
  imports      \* import statements executed so far

vars == <<source, sysModules, subNs, ns, exportList, status, pc, loader,
          held, error, execCount, imports>>

Init ==
  /\ source \in [Subs -> SourceFiles]
  /\ sysModules = {}
  /\ subNs = [s \in Subs |-> NoDefs]
  /\ ns = NewModule
  /\ exportList = <<>>
  /\ status = "idle"
  /\ pc = 1
  /\ loader = 1
  /\ held = [c \in Consumers |-> "none"]
  /\ error = "none"
  /\ execCount = 0
  /\ imports = 0

\* A faulty import of a loaded package: the body is run again on a new
\* namespace, as a reload would.
ImportReload(c) ==
  /\ status = "done"
  /\ imports < MaxImports
  /\ imports' = imports + 1
  /\ status' = "running"
  /\ pc' = 1
  /\ loader' = c
  /\ ns' = NewModule
  /\ exportList' = <<>>
  /\ held' = [held EXCEPT ![c] = "none"]
  /\ execCount' = execCount + 1
  /\ UNCHANGED <<source, sysModules, subNs, error>>

\* import starlette_jhalog, the package being fully loaded: sys.modules
\* answers and the body does not run.
ImportCached(c) ==
  /\ status = "done"
  /\ Pkg \in sysModules
  /\ imports < MaxImports
  /\ imports' = imports + 1
  /\ held' = [held EXCEPT ![c] = "module"]
  /\ UNCHANGED <<source, sysModules, subNs, ns, exportList, status, pc,
                 loader, error, execCount>>

\* import starlette_jhalog, the package not being in sys.modules: a module
\* object is created, entered in sys.modules, and its body starts.
ImportFresh(c) ==
  /\ status \in {"idle", "failed"}
  /\ Pkg \notin sysModules
  /\ imports < MaxImports
  /\ imports' = imports + 1
  /\ sysModules' = sysModules \cup {Pkg}
  /\ ns' = NewModule
  /\ exportList' = <<>>
  /\ status' = "running"
  /\ pc' = 1
  /\ loader' = c
  /\ held' = [held EXCEPT ![c] = "none"]
  /\ error' = "none"
  /\ execCount' = execCount + 1
  /\ UNCHANGED <<source, subNs>>

Running == status = "running" /\ pc <= Len(Body)

\* A faulty body that catches the exception and goes on with the next line.
FailSwallowed(kind) ==
  /\ pc' = pc + 1
  /\ UNCHANGED <<source, sysModules, subNs, ns, exportList, status, loader,
                 held, error, execCount, imports>>

\* An exception leaves the body: the load has failed, the package is removed
\* from sys.modules and the exception reaches the importing consumer.
Fail(kind) ==
  /\ status' = "failed"
  /\ error' = kind
  /\ sysModules' = sysModules \ {Pkg}
  /\ held' = [held EXCEPT ![loader] = kind]
  /\ UNCHANGED <<source, subNs, ns, exportList, pc, loader, execCount,
                 imports>>

\* Line 1: the docstring is bound to __doc__.
StoreDoc ==
  /\ Running
  /\ Body[pc].op = "STORE_DOC"
  /\ ns' = Bind(ns, "__doc__", StrObj)
  /\ pc' = pc + 1
  /\ UNCHANGED <<source, sysModules, subNs, exportList, status, loader, held,
                 error, execCount, imports>>

\* Lines 2 and 3, "from starlette_jhalog.<sub> import": the submodule is
\* already in sys.modules and is taken from there.
ImportNameCached ==
  /\ Running
  /\ Body[pc].op = "IMPORT_NAME"
  /\ SubName(Body[pc].sub) \in sysModules
  /\ pc' = pc + 1
  /\ UNCHANGED <<source, sysModules, subNs, ns, exportList, status, loader,
                 held, error, execCount, imports>>

\* Lines 2 and 3: the submodule is not loaded yet; its file is executed, it is
\* entered in sys.modules and bound as an attribute of the package.
ImportNameLoad ==
  /\ Running
  /\ Body[pc].op = "IMPORT_NAME"
  /\ SubName(Body[pc].sub) \notin sysModules
  /\ source[Body[pc].sub].status = "ok"
  /\ sysModules' = sysModules \cup {SubName(Body[pc].sub)}
  /\ subNs' = [subNs EXCEPT ![Body[pc].sub] = source[Body[pc].sub].defs]
  /\ ns' = Bind(ns, Body[pc].sub, ModuleObj(Body[pc].sub))
  /\ pc' = pc + 1
  /\ UNCHANGED <<source, exportList, status, loader, held, error, execCount,
                 imports>>

\* Lines 2 and 3: the submodule is absent, or raises while it is executed.
ImportNameFail ==
  /\ Running
  /\ Body[pc].op = "IMPORT_NAME"
  /\ SubName(Body[pc].sub) \notin sysModules
  /\ source[Body[pc].sub].status # "ok"
  /\ Fail(IF source[Body[pc].sub].status = "absent"
            THEN "ModuleNotFoundError" ELSE "SubmoduleError")

\* A faulty re-export that also rebinds the name in the submodule.
ImportFromPatching ==
  /\ Running
  /\ Body[pc].op = "IMPORT_FROM"
  /\ subNs[Body[pc].sub][Body[pc].name] # 0
  /\ ns' = Bind(ns, Body[pc].name, Obj(subNs[Body[pc].sub][Body[pc].name]))
  /\ subNs' = [subNs EXCEPT ![Body[pc].sub][Body[pc].name] = (@ % MaxObj) + 1]
  /\ pc' = pc + 1
  /\ UNCHANGED <<source, sysModules, exportList, status, loader, held, error,
                 execCount, imports>>

\* Lines 2 and 3, one imported name: the attribute of the submodule is bound
\* under the same name in the package.
ImportFromOK ==
  /\ Running
  /\ Body[pc].op = "IMPORT_FROM"
  /\ subNs[Body[pc].sub][Body[pc].name] # 0
  /\ ns' = Bind(ns, Body[pc].name, Obj(subNs[Body[pc].sub][Body[pc].name]))
  /\ pc' = pc + 1
  /\ UNCHANGED <<source, sysModules, subNs, exportList, status, loader, held,
                 error, execCount, imports>>

\* Lines 2 and 3, one imported name the submodule does not define.
ImportFromMissing ==
  /\ Running
  /\ Body[pc].op = "IMPORT_FROM"
  /\ subNs[Body[pc].sub][Body[pc].name] = 0
  /\ Fail("ImportError")

\* Line 5: __all__ is bound.
StoreAll ==
  /\ Running
  /\ Body[pc].op = "STORE_ALL"
  /\ ns' = Bind(ns, "__all__", TupleObj)
  /\ exportList' = __all__
  /\ pc' = pc + 1
  /\ UNCHANGED <<source, sysModules, subNs, status, loader, held, error,
                 execCount, imports>>

\* The body has run to its end: the load is complete and the import statement
\* of the loading consumer yields the module.
Finish ==
  /\ status = "running"
  /\ pc = Len(Body) + 1
  /\ status' = "done"
  /\ held' = [held EXCEPT ![loader] = "module"]
  /\ UNCHANGED <<source, sysModules, subNs, ns, exportList, pc, loader, error,
                 execCount, imports>>

Next ==
  \/ \E c \in Consumers : ImportCached(c)
  \/ \E c \in Consumers : ImportFresh(c)
  \/ StoreDoc
  \/ ImportNameCached
  \/ ImportNameLoad
  \/ ImportNameFail
  \/ ImportFromOK
  \/ ImportFromMissing
  \/ StoreAll
  \/ Finish

Spec == Init /\ [][Next]_vars

-----------------------------------------------------------------------------
\* Vocabulary of the properties.

Loaded == status = "done"

Range(seq) == {seq[i] : i \in 1..Len(seq)}

\* The instruction ins of the body has been executed (or has raised) in the
\* current load.
Attempted(ins) ==
  \E i \in 1..Len(Body) :
    /\ Body[i] = ins
    /\ \/ status = "running" /\ i < pc
       \/ status = "failed" /\ i <= pc
       \/ status = "done"

\* The exported names a consumer can reach through what its import gave it.
View(c) == IF held[c] = "module" THEN (DOMAIN ns) \cap Names ELSE {}

-----------------------------------------------------------------------------
\* C1: once line 5 has run, the export list __all__ holds the three names
\* JhalogMiddleware, HTTPException and get_logger, no other name, and no name
\* twice.
C1_ExportListExact ==
  "__all__" \in DOMAIN ns =>
    /\ Range(exportList) = {"JhalogMiddleware", "HTTPException", "get_logger"}
    /\ Len(exportList) = 3
    /\ \A i, j \in 1..Len(exportList) :
         exportList[i] = exportList[j] => i = j

C1_Witness == Loaded /\ "__all__" \in DOMAIN ns /\ exportList # <<>>

\* C2 as stated: after a successful load the names bound by the module body
\* are exactly the three exported names, so every name in __all__ is bound and
\* every name the body bound is in __all__.
C2_Original ==
  Loaded =>
    /\ Range(exportList) \subseteq DOMAIN ns
    /\ (DOMAIN ns) \ (DOMAIN NewModule) \subseteq Range(exportList)

\* C2 amended: after a successful load every name in __all__ is bound, every
\* bound name that does not begin with an underscore is in __all__, and the
\* remaining bound names are __name__, __doc__, __all__ and the two submodule
\* attributes _middleware and _exceptions.
C2_PublicNamesExact ==
  Loaded =>
    /\ Range(exportList) \subseteq DOMAIN ns
    /\ (DOMAIN ns) \ Underscored = Range(exportList)
    /\ DOMAIN ns =
         {"JhalogMiddleware", "HTTPException", "get_logger"} \cup Underscored

C2_Witness ==
  Loaded /\ "get_logger" \in DOMAIN ns /\ "_exceptions" \in DOMAIN ns

\* C3: after a successful load each exported name is the very object its
\* origin submodule defines under that name: JhalogMiddleware and get_logger
\* those of _middleware, HTTPException that of _exceptions.
C3_SameObject ==
  Loaded =>
    /\ \A n \in {"JhalogMiddleware", "get_logger"} :
         /\ subNs["_middleware"][n] # 0
         /\ ns[n] = Obj(subNs["_middleware"][n])
         /\ ns[n] = Obj(source["_middleware"].defs[n])
    /\ subNs["_exceptions"]["HTTPException"] # 0
    /\ ns["HTTPException"] = Obj(subNs["_exceptions"]["HTTPException"])
    /\ ns["HTTPException"] = Obj(source["_exceptions"].defs["HTTPException"])

\* The origin matters: _middleware has an HTTPException of its own, another
\* object than the one of _exceptions.
C3_Witness ==
  /\ Loaded
  /\ subNs["_middleware"]["HTTPException"] # 0
  /\ subNs["_middleware"]["HTTPException"]
       # subNs["_exceptions"]["HTTPException"]
  /\ subNs["_middleware"]["JhalogMiddleware"]
       # subNs["_middleware"]["get_logger"]

\* C4: when the import of a submodule that is absent or raises has been
\* attempted, the load has failed with that error, the error is what the
\* importing consumer got and the package is not in sys.modules; a loaded
\* package has both submodules loaded, and only a loaded package is ever
\* handed to a consumer.
C4_SubmoduleFailureFailsLoad ==
  /\ \A s \in Subs :
       (Attempted(Instr("IMPORT_NAME", s, "")) /\ source[s].status # "ok") =>
         /\ status = "failed"
         /\ error = (IF source[s].status = "absent"
                       THEN "ModuleNotFoundError" ELSE "SubmoduleError")
         /\ held[loader] = error
         /\ Pkg \notin sysModules
  /\ Loaded =>
       \A s \in Subs : source[s].status = "ok" /\ SubName(s) \in sysModules
  /\ \A c \in Consumers :
       held[c] = "module" => \A s \in Subs : source[s].status = "ok"

C4_Witness ==
  /\ status = "failed"
  /\ error = "SubmoduleError"
  /\ Body[pc] = Instr("IMPORT_NAME", "_exceptions", "")
  /\ source["_exceptions"].status = "raises"

\* C5: when a submodule has loaded and the import of a name it does not
\* define has been attempted, the load has failed at that instruction with an
\* ImportError, the importing consumer got that ImportError and the package
\* is not in sys.modules.
C5_MissingNameImportError ==
  \A i \in 1..Len(Body) :
    ( /\ Body[i].op = "IMPORT_FROM"
      /\ Attempted(Body[i])
      /\ source[Body[i].sub].status = "ok"
      /\ source[Body[i].sub].defs[Body[i].name] = 0 ) =>
        /\ status = "failed"
        /\ pc = i
        /\ error = "ImportError"
        /\ held[loader] = "ImportError"
        /\ Pkg \notin sysModules

C5_Witness ==
  /\ status = "failed"
  /\ error = "ImportError"
  /\ Body[pc] = Instr("IMPORT_FROM", "_middleware", "get_logger")
  /\ held[loader] = "ImportError"

\* C6: from a loaded package on, no step (a further import included) starts
\* the body again or changes a binding: the package stays loaded, its
\* namespace, its __all__ and the count of body executions stay as they are.
C6_LoadedOnce ==
  [][Loaded =>
       /\ Loaded'
       /\ ns' = ns
       /\ exportList' = exportList
       /\ execCount' = execCount
       /\ pc' = pc]_vars

\* The package is loaded, the body ran once, and a further import was served.
C6_Witness ==
  /\ Loaded
  /\ execCount = 1
  /\ imports >= 2
  /\ \A c \in Consumers : held[c] = "module"

\* C7: a consumer that holds the module holds a loaded package with all three
\* names and __all__ bound; a consumer sees either all three names or none;
\* a package in sys.modules whose body is not running is complete; a failed
\* load leaves the package out of sys.modules and its importer without it.
C7_AllOrNothing ==
  /\ \A c \in Consumers :
       /\ held[c] = "module" =>
            /\ Loaded
            /\ Pkg \in sysModules
            /\ Names \cup {"__all__"} \subseteq DOMAIN ns
       /\ View(c) \in {{}, {"JhalogMiddleware", "HTTPException", "get_logger"}}
  /\ (Pkg \in sysModules /\ status # "running") =>
       Names \cup {"__all__"} \subseteq DOMAIN ns
  /\ status = "failed" => (Pkg \notin sysModules /\ held[loader] = error)
  /\ status # "done" => \A c \in Consumers : held[c] # "module"

\* The second import failed after the first bound its two names, and no
\* consumer holds the package.
C7_Witness ==
  /\ status = "failed"
  /\ {"JhalogMiddleware", "get_logger"} \subseteq DOMAIN ns
  /\ "HTTPException" \notin DOMAIN ns
  /\ \A c \in Consumers : View(c) = {}
  /\ \E c \in Consumers : held[c] \notin {"none", "module"}

\* C8: the import of _exceptions is attempted only after _middleware was
\* imported and JhalogMiddleware and get_logger were bound; HTTPException is
\* bound only after those two, and __all__ only after all three; when the
\* load failed in the _middleware import, _exceptions was not imported and
\* neither HTTPException nor __all__ is bound.
C8_LoadOrder ==
  /\ Attempted(Instr("IMPORT_NAME", "_exceptions", "")) =>
       /\ Attempted(Instr("IMPORT_NAME", "_middleware", ""))
       /\ {"JhalogMiddleware", "get_logger"} \subseteq DOMAIN ns
  /\ "HTTPException" \in DOMAIN ns =>
       {"JhalogMiddleware", "get_logger"} \subseteq DOMAIN ns
  /\ "__all__" \in DOMAIN ns => Names \subseteq DOMAIN ns
  /\ (status = "failed" /\ Body[pc].sub = "_middleware") =>
       /\ ~ Attempted(Instr("IMPORT_NAME", "_exceptions", ""))
       /\ SubName("_exceptions") \notin sysModules
       /\ "_exceptions" \notin DOMAIN ns
       /\ "HTTPException" \notin DOMAIN ns
       /\ "__all__" \notin DOMAIN ns

\* The _middleware import failed although _exceptions is a sound submodule
\* that defines HTTPException.
C8_Witness ==
  /\ status = "failed"
  /\ Body[pc].sub = "_middleware"
  /\ source["_exceptions"].status = "ok"
  /\ source["_exceptions"].defs["HTTPException"] # 0

\* C9: no step of the load changes the namespace of a submodule that is
\* loaded or the submodule files, and a submodule's names are what its file
\* defines: the load only adds bindings to the package's own namespace.
C9_SubmodulesUnchanged ==
  [][/\ source' = source
     /\ \A s \in Subs :
          /\ SubName(s) \in sysModules => subNs'[s] = subNs[s]
          /\ SubName(s) \in sysModules' => subNs'[s] = source[s].defs
     /\ ns' # ns => (DOMAIN ns \subseteq DOMAIN ns' \/ ns' = NewModule)]_vars

\* A load ran while _middleware was already loaded from an earlier attempt.
C9_Witness ==
  /\ execCount >= 2
  /\ status = "failed"
  /\ SubName("_middleware") \in sysModules
  /\ "JhalogMiddleware" \in DOMAIN ns
  /\ subNs["_middleware"]["JhalogMiddleware"] # 0

=============================================================================
